---- MODULE Spec2Model ----
(***************************************************************************)
(* Model of the filter registry (src/filters/filter_manager.py), of the    *)
(* overlay unit (src/filters/overlay_filter.py): its asset cursor, its     *)
(* offsets, its placement and its blending, and of the pose-driven unit    *)
(* (src/filters/model_3d_filter.py).                                       *)
(*                                                                         *)
(* Python values are encoded as follows.                                   *)
(*   - None as the string "None" where it stands for a missing object;     *)
(*   - the return value of a registry method as a set of booleans:         *)
(*     {} is None, {TRUE} is True, {FALSE} is False;                       *)
(*   - a list as a sequence; a reference to a list element as its index;   *)
(*   - a float scale as the fraction <<numerator, denominator>>;           *)
(*   - an image array as its rows of pixels, counted from 1.               *)
(***************************************************************************)
EXTENDS Integers, Sequences, FiniteSets, TLC

\* ------------------------------------------------------------- inputs
\* Names the callers pass to the registry.
Names == {"A", "B", "C"}

\* Python's None, as the filter object of a unit or as an overlay.
None == "None"

\* Filter objects the callers register: instances of a BaseFilter subclass,
\* as at src/main.py:114-134.
FilterObjs == {"f1", "f2"}

\* z_order values the callers pass are 1..MaxZ.
MaxZ == 2

ZOrders == 1..MaxZ

\* The frames and the detection lists handed to FilterManager.apply. A frame
\* is the sequence of the renderings already made on it.
InputFrames == {<<"cam">>}

DetectionLists == {<< <<1, 1, 2, 2>> >>}

\* Paths the callers pass to OverlayFilter, and what is on disk at a path: no
\* file, a file cv2.imread cannot decode, or an image of 1, 3 or 4 channels.
Paths == {"p1", "p2", "p3"}

FileKinds == {"missing", "unreadable", "gray", "bgr", "bgra"}

\* asset_path lists hold at most MaxAssets paths.
MaxAssets == 3

\* The offsets stay within -MaxOffset..MaxOffset; the callers move by OffsetSteps.
MaxOffset == 2

OffsetSteps == {-1, 1}

\* The length of the recorded history of next_asset calls.
MaxVisited == 4

\* The scale the callers pass to OverlayFilter and to FilterConfig, as the
\* fraction <<numerator, denominator>>: 0.05, 0.5, 1.2 and 2.5.
Scales == {<<1, 20>>, <<1, 2>>, <<6, 5>>, <<5, 2>>}

\* The shape <<rows, columns>> of the image stored at a path.
ShapeOf == [p \in Paths |-> CASE p = "p1" -> <<40, 100>>
                               [] p = "p2" -> <<3, 2>>
                               [] OTHER    -> <<1, 3>>]

\* The detection lists handed to OverlayFilter.apply, of boxes (x, y, w, h);
\* the last box has no width.
OverlayDetections ==
    {<<>>,
     << <<1, 0, 5, 2>> >>,
     << <<100, 100, 50, 50>>, <<0, 0, 3, 3>> >>,
     << <<100, 100, 50, 50>>, <<2, 2, 0, 0>> >>,
     << <<2, 2, 0, 0>>, <<0, 0, 3, 3>> >>}

\* The frames handed to _blend_rgba have 1..MaxFrameDim rows and columns, the
\* assets 1..MaxAssetDim, and the origins lie in -MaxOrigin..MaxOrigin.
MaxFrameDim == 2

MaxAssetDim == 2

MaxOrigin == 3

\* The pixels of a frame handed to _blend_rgba are all one of these (b, g, r).
BgPixels == {<<0, 255, 90>>, <<255, 0, 200>>}

\* The pixels of an asset: (b, g, r) and alpha; the alpha of an asset of three
\* channels is not there and is never read.
AssetPixels ==
    << [bgr |-> <<255, 0, 90>>, a |-> 255],
       [bgr |-> <<0, 200, 90>>, a |-> 0],
       [bgr |-> <<90, 90, 255>>, a |-> 128] >>

\* An asset of rh rows and rw columns, its pixels taken in turn from AssetPixels.
AssetOf(rh, rw, first, channels) ==
    [channels |-> channels,
     pixels |-> [i \in 1..rh |-> [j \in 1..rw |->
                    AssetPixels[((i + j + first) % Len(AssetPixels)) + 1]]]]

\* Model3DFilter.apply is handed at most MaxFaces detections.
MaxFaces == 2

\* The number of landmarks of the first face FaceMeshDetector.detect returns:
\* MediaPipe gives 468, a shorter list lacks some of the six indices.
LandmarkCounts == {0, 34, 200, 291, 292, 468}

\* What the surroundings answer during one detection of Model3DFilter.apply:
\* the list detect returns, each face as the number of its landmarks, and
\* whether cv2.solvePnP reports success.
Answers ==
    [faces : {<<>>} \cup {<<n>> : n \in LandmarkCounts}
                   \cup {<<n, 468>> : n \in {200, 468}},
     success : BOOLEAN]

\* What mesh is in main: None when the import of face_mesh failed, a detector
\* that is not available (no MediaPipe), or an available one.
Meshes == {None, "unavailable", "available"}

\* What cam.read() answers: (ret, frame).
ReadAnswers == {<<TRUE, "frame">>, <<FALSE, None>>, <<TRUE, None>>}

\* A face as MediaPipe reports it to main: the number n of its landmarks, its
\* landmark 2 and its landmarks 61 and 291 as points (x, y), each read only
\* when n reaches its index.
Face(n, anchor, left_corner, right_corner) ==
    [n |-> n, anchor |-> anchor, left_corner |-> left_corner,
     right_corner |-> right_corner]

\* The lists mesh.detect answers (max_faces is 1): no face, faces too short
\* for landmark 2 or for landmark 291, and full faces whose mouth corners are
\* 0, 1, 40 or 100 pixels apart in x, in either order, level or tilted, near
\* and far from the frame's corner.
MainFaces ==
    {<<>>} \cup
    {<<f>> : f \in {Face(2, <<0, 0>>, <<0, 0>>, <<0, 0>>),
                    Face(100, <<50, 60>>, <<30, 70>>, <<0, 0>>),
                    Face(291, <<3, 2>>, <<30, 70>>, <<0, 0>>),
                    Face(292, <<50, 60>>, <<30, 70>>, <<70, 70>>),
                    Face(468, <<50, 60>>, <<30, 70>>, <<30, 70>>),
                    Face(468, <<50, 60>>, <<30, 70>>, <<31, 70>>),
                    Face(468, <<50, 60>>, <<70, 70>>, <<30, 70>>),
                    Face(468, <<50, 60>>, <<30, 70>>, <<130, 70>>),
                    Face(468, <<50, 60>>, <<30, 50>>, <<70, 80>>),
                    Face(468, <<3, 2>>, <<30, 70>>, <<70, 70>>),
                    Face(468, <<3, 2>>, <<31, 70>>, <<31, 75>>)}}

\* What the surroundings answer to the 3D unit while main applies it.
MainAnswers ==
    {a \in Answers : a.faces \in {<<>>, <<200>>, <<468>>} /\ (a.success \/ a.faces = <<468>>)}

\* The keys cv2.waitKey reports; "" is any other key or none.
Keys == {"q", "m", "f", "b", "n", "2", "3", "l", ""}

VARIABLES
    filters,     \* FilterManager.filters: the list of FilterItem
    insertion,   \* history, kept under SpecOrder only: the names of the registered
                 \* units in the order add inserted them
    lastOp,      \* history: the last call on the registry and its arguments
    ret,         \* the value the last call returned
    calls,       \* history: the filter_obj.apply calls made by the last FilterManager.apply
    frame,       \* the frame the last FilterManager.apply returned
    constructed, \* whether OverlayFilter.__init__ returned (FALSE: it raised)
    assets,      \* OverlayFilter.assets: the loaded images
    asset_index, \* OverlayFilter.asset_index
    _overlay,    \* OverlayFilter._overlay: the active image, or None
    offset_x,    \* OverlayFilter.offset_x
    offset_y,    \* OverlayFilter.offset_y
    visited,     \* history: asset_index after construction and after each of the
                 \* first MaxVisited calls of next_asset
    scale,       \* OverlayFilter.scale
    config,      \* the outcome of FilterConfig(path, scale) with the same scale
    sums,        \* history: the sums of the dx and of the dy passed to add_offset_x
                 \* and add_offset_y since construction or the last reset_offset
    applied,     \* history: the outcome of OverlayFilter.apply and the _blend_rgba
                 \* calls it made, while apply is the last method called
    bl,          \* one call of _blend_rgba: its arguments and its outcome
    m3,          \* one call of Model3DFilter.apply: its inputs and its outcome
    mn           \* main(): its locals, the camera, its position in the capture
                 \* loop and the history of the last iteration

fmVars == <<filters, insertion, lastOp, ret, calls, frame>>

ovVars == <<constructed, assets, asset_index, _overlay, offset_x, offset_y, visited,
            scale, config, sums, applied, bl, m3, mn>>

vars == <<filters, insertion, lastOp, ret, calls, frame,
          constructed, assets, asset_index, _overlay, offset_x, offset_y, visited,
          scale, config, sums, applied, bl, m3, mn>>

\* ------------------------------------------------------- Python values
PyNone == {}

PyBool(b) == {b}

\* bool(filter_obj): None is falsy, an instance of a filter class (which
\* defines neither __bool__ nor __len__) is truthy.
Truthy(obj) == obj # None

\* list.pop(i), with i counted from 1.
Pop(fs, i) == SubSeq(fs, 1, i - 1) \o SubSeq(fs, i + 1, Len(fs))

\* --------------------------------------------------------- FilterItem
FilterItem(name, filter_obj, enabled, z_order) ==
    [name |-> name, filter_obj |-> filter_obj, enabled |-> enabled, z_order |-> z_order]

\* ------------------------------------------------------ FilterManager
\* The index of the first item called name, 0 for None.
get_filter_by_name(fs, name) ==
    IF \E i \in 1..Len(fs) : fs[i].name = name
    THEN CHOOSE i \in 1..Len(fs) :
            /\ fs[i].name = name
            /\ \A j \in 1..(i - 1) : fs[j].name # name
    ELSE 0

\* The place item i takes in list.sort(key=z_order): the sort is stable, so an
\* item goes after the items of smaller key and after the items of equal key
\* that stood before it.
SortRank(fs, i) ==
    1 + Cardinality({j \in 1..Len(fs) :
                        \/ fs[j].z_order < fs[i].z_order
                        \/ fs[j].z_order = fs[i].z_order /\ j < i})

_sort_by_z_order(fs) ==
    [k \in 1..Len(fs) |-> fs[CHOOSE i \in 1..Len(fs) : SortRank(fs, i) = k]]

\* Mutants of remove: one reports the removal without popping, one pops the
\* last item instead of the item found.
remove_not_popped(fs, name) ==
    IF \E i \in 1..Len(fs) : fs[i].name = name
    THEN [filters |-> fs, ret |-> PyBool(TRUE)]
    ELSE [filters |-> fs, ret |-> PyBool(FALSE)]

remove_last(fs, name) ==
    IF \E i \in 1..Len(fs) : fs[i].name = name
    THEN [filters |-> Pop(fs, Len(fs)), ret |-> PyBool(TRUE)]
    ELSE [filters |-> fs, ret |-> PyBool(FALSE)]

remove(fs, name) ==
    IF \E i \in 1..Len(fs) : fs[i].name = name
    THEN LET i == CHOOSE k \in 1..Len(fs) :
                     /\ fs[k].name = name
                     /\ \A j \in 1..(k - 1) : fs[j].name # name
         IN  [filters |-> Pop(fs, i), ret |-> PyBool(TRUE)]
    ELSE [filters |-> fs, ret |-> PyBool(FALSE)]

\* Mutant of add: the item is appended without removing the one of that name.
add_duplicate(fs, name, filter_obj, enabled, z_order) ==
    [filters |-> _sort_by_z_order(Append(fs, FilterItem(name, filter_obj, enabled, z_order))),
     ret |-> PyNone]

add(fs, name, filter_obj, enabled, z_order) ==
    LET fs1 == IF get_filter_by_name(fs, name) # 0
               THEN remove(fs, name).filters
               ELSE fs
        item == FilterItem(name, filter_obj, enabled, z_order)
    IN  [filters |-> _sort_by_z_order(Append(fs1, item)), ret |-> PyNone]

\* Mutant of set_enabled: True is returned only when the flag changed.
set_enabled_if_changed(fs, name, enabled) ==
    LET i == get_filter_by_name(fs, name)
    IN  IF i # 0 /\ fs[i].enabled # enabled
        THEN [filters |-> [fs EXCEPT ![i].enabled = enabled], ret |-> PyBool(TRUE)]
        ELSE [filters |-> fs, ret |-> PyBool(FALSE)]

set_enabled(fs, name, enabled) ==
    LET i == get_filter_by_name(fs, name)
    IN  IF i # 0
        THEN [filters |-> [fs EXCEPT ![i].enabled = enabled], ret |-> PyBool(TRUE)]
        ELSE [filters |-> fs, ret |-> PyBool(FALSE)]

\* Mutant of toggle: the unit is enabled whatever its flag was.
toggle_enables(fs, name) ==
    LET i == get_filter_by_name(fs, name)
    IN  IF i # 0
        THEN [filters |-> [fs EXCEPT ![i].enabled = TRUE], ret |-> PyBool(TRUE)]
        ELSE [filters |-> fs, ret |-> PyNone]

\* Mutant of toggle: the flag's old value is returned.
toggle_returns_old(fs, name) ==
    LET i == get_filter_by_name(fs, name)
    IN  IF i # 0
        THEN [filters |-> [fs EXCEPT ![i].enabled = ~fs[i].enabled],
              ret |-> PyBool(fs[i].enabled)]
        ELSE [filters |-> fs, ret |-> PyNone]

toggle(fs, name) ==
    LET i == get_filter_by_name(fs, name)
    IN  IF i # 0
        THEN [filters |-> [fs EXCEPT ![i].enabled = ~fs[i].enabled],
              ret |-> PyBool(~fs[i].enabled)]
        ELSE [filters |-> fs, ret |-> PyNone]

\* Mutant of move: the list is not sorted again.
move_no_sort(fs, name, new_z_order) ==
    LET i == get_filter_by_name(fs, name)
    IN  IF i # 0
        THEN [filters |-> [fs EXCEPT ![i].z_order = new_z_order], ret |-> PyBool(TRUE)]
        ELSE [filters |-> fs, ret |-> PyBool(FALSE)]

move(fs, name, new_z_order) ==
    LET i == get_filter_by_name(fs, name)
    IN  IF i # 0
        THEN [filters |-> _sort_by_z_order([fs EXCEPT ![i].z_order = new_z_order]),
              ret |-> PyBool(TRUE)]
        ELSE [filters |-> fs, ret |-> PyBool(FALSE)]

\* list_filters prints the units and returns None.
list_filters(fs) == [filters |-> fs, ret |-> PyNone]

\* get_active_count: the number of enabled units, returned as {n}.
get_active_count(fs) ==
    [filters |-> fs, ret |-> {Cardinality({i \in 1..Len(fs) : fs[i].enabled})}]

\* BaseFilter.apply of a filter object: the frame it returns is the frame it
\* was given with this rendering made on it.
Render(filter_obj, fr, detections) == Append(fr, <<filter_obj, detections>>)

\* The loop of FilterManager.apply over the items from position i on: fr is
\* the loop's frame variable, log the calls made so far.
RECURSIVE ApplyLoop(_, _, _, _, _)
ApplyLoop(fs, i, fr, detections, log) ==
    IF i > Len(fs)
    THEN [frame |-> fr, calls |-> log]
    ELSE IF fs[i].enabled /\ Truthy(fs[i].filter_obj)
         THEN LET out == Render(fs[i].filter_obj, fr, detections)
              IN  ApplyLoop(fs, i + 1, out, detections,
                            Append(log, [name |-> fs[i].name,
                                         filter_obj |-> fs[i].filter_obj,
                                         frame |-> fr,
                                         detections |-> detections,
                                         returned |-> out]))
         ELSE ApplyLoop(fs, i + 1, fr, detections, log)

\* Mutant of apply: the loop starts at the second item.
apply_from_second(fs, fr, detections) == ApplyLoop(fs, 2, fr, detections, <<>>)

apply(fs, fr, detections) == ApplyLoop(fs, 1, fr, detections, <<>>)

\* ------------------------------------------------------ OverlayFilter
\* Sequences over S of length 0..n.
SeqsUpTo(S, n) == UNION {[1..k -> S] : k \in 0..n}

\* None where an image is expected.
NoImage == [path |-> None, channels |-> 0]

\* cv2.imread(path, IMREAD_UNCHANGED) of a file of the given kind: None, or the
\* image, of which the model keeps the path and the number of channels; a
\* one-channel image has a shape of two entries.
imread(path, kind) ==
    CASE kind = "gray" -> [path |-> path, channels |-> 1]
      [] kind = "bgr"  -> [path |-> path, channels |-> 3]
      [] kind = "bgra" -> [path |-> path, channels |-> 4]
      [] OTHER         -> NoImage

\* cv2.cvtColor(img, COLOR_BGR2BGRA).
cvtColorBGR2BGRA(img) == [img EXCEPT !.channels = 4]

\* The loading loop of __init__ from path i on. img.shape[2] of an image whose
\* shape has two entries raises IndexError.
RECURSIVE LoadAssets(_, _, _, _)
LoadAssets(paths, i, disk, loaded) ==
    IF i > Len(paths)
    THEN [raised |-> FALSE, assets |-> loaded]
    ELSE IF disk[paths[i]] = "missing"
         THEN LoadAssets(paths, i + 1, disk, loaded)
         ELSE LET img == imread(paths[i], disk[paths[i]])
              IN  IF img = NoImage
                  THEN LoadAssets(paths, i + 1, disk, loaded)
                  ELSE IF img.channels = 1
                       THEN [raised |-> TRUE, assets |-> loaded]
                       ELSE IF img.channels = 3
                            THEN LoadAssets(paths, i + 1, disk,
                                            Append(loaded, cvtColorBGR2BGRA(img)))
                            ELSE LoadAssets(paths, i + 1, disk, Append(loaded, img))

\* OverlayFilter.__init__(asset_path, scale): a str argument is the list of
\* that one path. cv2 is None when the import of OpenCV failed. The scale is
\* stored as passed.
OverlayFilterInit(paths, sc, disk, cv2) ==
    LET r == IF cv2 # None THEN LoadAssets(paths, 1, disk, <<>>)
             ELSE [raised |-> FALSE, assets |-> <<>>]
    IN  [raised |-> r.raised,
         scale |-> sc,
         assets |-> r.assets,
         asset_index |-> IF r.assets # <<>> THEN 0 ELSE -1,
         _overlay |-> IF r.assets # <<>> THEN r.assets[1] ELSE NoImage,
         offset_x |-> 0,
         offset_y |-> 0]

\* Mutant of next_asset: the cursor stops at the last asset.
next_asset_no_wrap(as, index, overlay) ==
    IF Len(as) > 1
    THEN LET new_index == IF index + 1 < Len(as) THEN index + 1 ELSE index
         IN  [asset_index |-> new_index, _overlay |-> as[new_index + 1]]
    ELSE [asset_index |-> index, _overlay |-> overlay]

\* next_asset on a unit with these assets, cursor and active image: the new
\* cursor and active image. Python lists count from 0.
next_asset(as, index, overlay) ==
    IF Len(as) > 1
    THEN LET new_index == (index + 1) % Len(as)
         IN  [asset_index |-> new_index, _overlay |-> as[new_index + 1]]
    ELSE [asset_index |-> index, _overlay |-> overlay]

add_offset_x(x, dx) == x + dx

add_offset_y(y, dy) == y + dy

reset_offset == [offset_x |-> 0, offset_y |-> 0]

\* a <= b for two fractions of positive denominators.
FracLE(a, b) == a[1] * b[2] <= b[1] * a[2]

\* FilterConfig.__post_init__: a scale outside 0.1..2.0 raises ValueError; a
\* missing file only prints a warning.
FilterConfigPostInit(sc) ==
    [raised |-> ~(FracLE(<<1, 10>>, sc) /\ FracLE(sc, <<2, 1>>)), scale |-> sc]

\* Mutant of next_asset_on: the offsets are reset with the cursor.
next_asset_resets(self) ==
    LET r == next_asset(self.assets, self.asset_index, self._overlay)
    IN  [self EXCEPT !.asset_index = r.asset_index, !._overlay = r._overlay,
                     !.offset_x = 0, !.offset_y = 0]

\* next_asset on the whole unit: every attribute of the unit after the call.
next_asset_on(self) ==
    LET r == next_asset(self.assets, self.asset_index, self._overlay)
    IN  [self EXCEPT !.asset_index = r.asset_index, !._overlay = r._overlay]

\* int(n / d) for d > 0: Python's int() drops the fraction, towards zero.
Trunc(n, d) == IF n >= 0 THEN n \div d ELSE -((-n) \div d)

Max(a, b) == IF a >= b THEN a ELSE b

\* abs(a).
Abs(a) == IF a >= 0 THEN a ELSE -a

Min(a, b) == IF a <= b THEN a ELSE b

\* img.shape[:2] of a loaded image.
Shape(img) == ShapeOf[img.path]

\* Mutant of TargetSize: the height is taken from the width before its
\* fraction is dropped.
TargetSize_from_exact_width(w, sc, shape) ==
    [target_w |-> Trunc(w * sc[1], sc[2]),
     target_h |-> Trunc(w * sc[1] * shape[1], sc[2] * shape[2])]

\* The size OverlayFilter.apply asks of cv2.resize for a box of width w:
\* target_w = int(w * scale), then target_h = int(target_w * aspect) with
\* aspect = shape[0] / shape[1]. For the scales, widths and shapes of this
\* model the floating-point products have the integer part of the exact ones.
TargetSize(w, sc, shape) ==
    LET target_w == Trunc(w * sc[1], sc[2])
    IN  [target_w |-> target_w, target_h |-> Trunc(target_w * shape[1], shape[2])]

\* Mutant of Origin: only the x of the origin is held at 0.
Origin_held_x_only(x, y, w, target_w, target_h, off_x, off_y) ==
    [ox |-> Max(0, x - ((target_w - w) \div 2) + off_x),
     oy |-> y - (target_h \div 2) + off_y]

\* Mutant of Origin: the origin is not held at 0.
Origin_not_held(x, y, w, target_w, target_h, off_x, off_y) ==
    [ox |-> x - ((target_w - w) \div 2) + off_x,
     oy |-> y - (target_h \div 2) + off_y]

\* The origin OverlayFilter.apply passes to _blend_rgba; // rounds down.
Origin(x, y, w, target_w, target_h, off_x, off_y) ==
    [ox |-> Max(0, x - ((target_w - w) \div 2) + off_x),
     oy |-> Max(0, y - (target_h \div 2) + off_y)]

\* cv2.resize raises cv2.error for a size with no pixels.
ResizeRaises(target_w, target_h) == target_w <= 0 \/ target_h <= 0

\* The loop of OverlayFilter.apply from detection i on: the _blend_rgba calls
\* made so far are in log. An error of cv2.resize ends the call.
RECURSIVE OverlayApplyLoop(_, _, _, _)
OverlayApplyLoop(self, detections, i, log) ==
    IF i > Len(detections)
    THEN [raised |-> FALSE, blends |-> log]
    ELSE LET d == detections[i]
             t == TargetSize(d[3], self.scale, Shape(self._overlay))
             o == Origin(d[1], d[2], d[3], t.target_w, t.target_h,
                         self.offset_x, self.offset_y)
         IN  IF ResizeRaises(t.target_w, t.target_h)
             THEN [raised |-> TRUE, blends |-> log]
             ELSE OverlayApplyLoop(self, detections, i + 1,
                      Append(log, [box |-> d, rw |-> t.target_w, rh |-> t.target_h,
                                   ox |-> o.ox, oy |-> o.oy,
                                   overlay |-> self._overlay]))

\* The index numpy takes for the bound i of a slice of an axis of n entries: a
\* negative bound counts from the end, and every bound is held in 0..n.
SliceIndex(i, n) == IF i < 0 THEN Max(0, i + n) ELSE Min(i, n)

\* The entries, counted from 0, of the slice [start:stop] of an axis of n entries.
Slice(start, stop, n) ==
    [k \in 1..Max(0, SliceIndex(stop, n) - SliceIndex(start, n)) |->
        SliceIndex(start, n) + k - 1]

\* numpy assigns a value of a entries along an axis to a region of r entries
\* when a = r or a = 1, and raises ValueError otherwise.
Fits(a, r) == a = r \/ a = 1

\* Mutant of BlendValue: the weights of the background and the asset are swapped.
BlendValue_swapped(a, bg, fg) == (a * bg + (255 - a) * fg) \div 255

\* (1 - alpha) * bg + alpha * fg with alpha = a / 255.0, stored in a uint8: the
\* fraction is dropped. For the values of this model the floating-point result
\* has the integer part of the exact one.
BlendValue(a, bg, fg) == ((255 - a) * bg + a * fg) \div 255

\* Mutant of BlendPixel: an asset of three channels is blended too.
BlendPixel_always_blends(channels, bg, px) ==
    [c \in 1..3 |-> BlendValue(px.a, bg[c], px.bgr[c])]

\* The pixel _blend_rgba stores over the background bg for the asset pixel px:
\* blended in each of the three channels for an asset of four channels, the
\* asset's own otherwise.
BlendPixel(channels, bg, px) ==
    IF channels = 4
    THEN [c \in 1..3 |-> BlendValue(px.a, bg[c], px.bgr[c])]
    ELSE px.bgr

\* _blend_rgba(frame, rgba, ox, oy): the frame after the call, or the error.
\* The region is the numpy slice frame[oy:oy+rh_clipped, ox:ox+rw_clipped]
\* and the asset part rgba[:rh_clipped, :rw_clipped]; an asset part of one row
\* or column is repeated along the region.
_blend_rgba(fr, rgba, ox, oy) ==
    LET h  == Len(fr)
        w  == Len(fr[1])
        rh == Len(rgba.pixels)
        rw == Len(rgba.pixels[1])
    IN  IF ox >= w \/ oy >= h
        THEN [raised |-> FALSE, frame |-> fr]
        ELSE LET rh_clipped == Min(rh, h - oy)
                 rw_clipped == Min(rw, w - ox)
                 rows == Slice(oy, oy + rh_clipped, h)
                 cols == Slice(ox, ox + rw_clipped, w)
             IN  IF rh_clipped <= 0 \/ rw_clipped <= 0
                 THEN [raised |-> FALSE, frame |-> fr]
                 ELSE IF ~(Fits(rh_clipped, Len(rows)) /\ Fits(rw_clipped, Len(cols)))
                      THEN [raised |-> TRUE, frame |-> fr]
                      ELSE [raised |-> FALSE,
                            frame |->
                              [r \in 1..h |-> [c \in 1..w |->
                                 IF \E i \in 1..Len(rows), j \in 1..Len(cols) :
                                        rows[i] = r - 1 /\ cols[j] = c - 1
                                 THEN LET i == CHOOSE k \in 1..Len(rows) : rows[k] = r - 1
                                          j == CHOOSE k \in 1..Len(cols) : cols[k] = c - 1
                                      IN  BlendPixel(rgba.channels, fr[r][c],
                                              rgba.pixels[IF rh_clipped = 1 THEN 1 ELSE i]
                                                         [IF rw_clipped = 1 THEN 1 ELSE j])
                                 ELSE fr[r][c]]]]

\* ----------------------------------------------------- Model3DFilter
\* The landmark indices the pose is computed from.
MP_IDXS == <<33, 263, 1, 61, 291, 199>>

\* None where the landmarks are expected.
NoLandmarks == <<>>

\* Mutant of _get_face_landmarks: the landmarks found are returned however few.
_get_face_landmarks_any(results) ==
    IF results = <<>>
    THEN NoLandmarks
    ELSE SelectSeq(MP_IDXS, LAMBDA idx : idx < results[1])

\* _get_face_landmarks for the list detect returned: the landmarks of the
\* first face at the indices of MP_IDXS its list reaches, each as its index,
\* or None when there is no face or fewer than six of them.
_get_face_landmarks(results) ==
    IF results = <<>>
    THEN NoLandmarks
    ELSE LET landmarks_2d == SelectSeq(MP_IDXS, LAMBDA idx : idx < results[1])
         IN  IF Len(landmarks_2d) # 6 THEN NoLandmarks ELSE landmarks_2d

\* _calculate_pose: the pose of the landmarks, or None when solvePnP reports
\* failure.
_calculate_pose(landmarks, success) ==
    IF ~success THEN NoLandmarks ELSE landmarks

\* _render_3d_model: the axes of the pose are drawn on the frame.
_render_3d_model(fr, pose) == Append(fr, <<"axes", pose>>)

\* Mutant of Model3DApplyLoop: a failed solve ends the call.
RECURSIVE Model3DApplyLoop_ends(_, _, _, _, _)
Model3DApplyLoop_ends(detections, answers, i, fr, log) ==
    IF i > Len(detections)
    THEN [frame |-> fr, log |-> log]
    ELSE LET landmarks == _get_face_landmarks(answers[i].faces)
             pose == _calculate_pose(landmarks, answers[i].success)
         IN  IF landmarks = NoLandmarks
             THEN Model3DApplyLoop_ends(detections, answers, i + 1, fr,
                      Append(log, [solved |-> FALSE, rendered |-> FALSE]))
             ELSE IF pose = NoLandmarks
                  THEN [frame |-> fr,
                        log |-> Append(log, [solved |-> TRUE, rendered |-> FALSE])]
                  ELSE Model3DApplyLoop_ends(detections, answers, i + 1,
                           _render_3d_model(fr, pose),
                           Append(log, [solved |-> TRUE, rendered |-> TRUE]))

\* The loop of Model3DFilter.apply from detection i on. The log tells of each
\* detection whether solvePnP was called for it and whether it was rendered.
RECURSIVE Model3DApplyLoop(_, _, _, _, _)
Model3DApplyLoop(detections, answers, i, fr, log) ==
    IF i > Len(detections)
    THEN [frame |-> fr, log |-> log]
    ELSE LET landmarks == _get_face_landmarks(answers[i].faces)
             pose == _calculate_pose(landmarks, answers[i].success)
         IN  IF landmarks = NoLandmarks
             THEN Model3DApplyLoop(detections, answers, i + 1, fr,
                      Append(log, [solved |-> FALSE, rendered |-> FALSE]))
             ELSE IF pose = NoLandmarks
                  THEN Model3DApplyLoop(detections, answers, i + 1, fr,
                           Append(log, [solved |-> TRUE, rendered |-> FALSE]))
                  ELSE Model3DApplyLoop(detections, answers, i + 1,
                           _render_3d_model(fr, pose),
                           Append(log, [solved |-> TRUE, rendered |-> TRUE]))

\* Model3DFilter.apply(frame, detections): the frame is returned as it came
\* without OpenCV, without a loaded model or without a landmark detector.
Model3DApply(self, cv2, fr, detections, answers) ==
    IF cv2 = None \/ ~self.model_loaded
    THEN [frame |-> fr, log |-> <<>>]
    ELSE IF self.face_mesh_detector = None
         THEN [frame |-> fr, log |-> <<>>]
         ELSE Model3DApplyLoop(detections, answers, 1, fr, <<>>)

\* Model3DFilter.__init__: the model counts as loaded when its file exists.
Model3DInit(exists, detector) ==
    [model_loaded |-> exists, face_mesh_detector |-> detector]

\* ------------------------------------------------------ OverlayFilter.apply
\* Mutant of OverlayApply: the active image is not tested, and reading the
\* shape of None raises AttributeError.
OverlayApply_untested(self, detections) ==
    IF self._overlay = NoImage
    THEN [raised |-> TRUE, blends |-> <<>>]
    ELSE OverlayApplyLoop(self, detections, 1, <<>>)

\* OverlayFilter.apply(frame, detections): without an active image the frame is
\* returned as it came.
OverlayApply(self, detections) ==
    IF self._overlay = NoImage
    THEN [raised |-> FALSE, blends |-> <<>>]
    ELSE OverlayApplyLoop(self, detections, 1, <<>>)

\* ------------------------------------------------------------------ main
\* The files main loads as overlay units, in the order of its list: the asset
\* path, the name of the unit (Bigote Café without its accent) and its scale
\* (0.8, 0.75 and 0.6).
mustache_files ==
    <<[path |-> "p1", name |-> "Bigote Negro", scale |-> <<4, 5>>],
      [path |-> "p2", name |-> "Bigote Cafe", scale |-> <<3, 4>>],
      [path |-> "p3", name |-> "Bigote Rojo", scale |-> <<3, 5>>]>>

model_3d_path == "3d.obj"

\* OverlayFilter(path, scale=scale) as main constructs it for a file that
\* exists: the unit is named by its path in the registry.
OverlayUnit(path) ==
    LET f == mustache_files[CHOOSE i \in 1..Len(mustache_files) :
                                mustache_files[i].path = path]
    IN  OverlayFilterInit(<<f.path>>, f.scale, [q \in Paths |-> "bgra"], "cv2")

\* CameraManager.read: (False, None) without a capture, else what the capture
\* answers. The camera is "closed" before open, "open", or "released".
camera_read(cam, answer) == IF cam # "open" THEN <<FALSE, None>> ELSE answer

\* CameraManager.release: the capture is released and forgotten.
camera_release(cam) == IF cam = "open" THEN "released" ELSE cam

\* FaceMeshDetector.available.
mesh_available(mesh) == mesh = "available"

\* FaceMeshDetector.detect: no face without MediaPipe.
mesh_detect(mesh, answer) == IF mesh = "available" THEN answer ELSE <<>>

\* No placement was attempted.
NoBox == <<>>

\* The history of an iteration of the capture loop, before it started.
NoIteration ==
    [read |-> "none", detected |-> FALSE, rectangles |-> FALSE,
     landmarks |-> "skipped", face_pts |-> <<>>, mesh_drawn |-> FALSE,
     box |-> NoBox, applied |-> <<>>, raised |-> FALSE, displayed |-> FALSE]

\* The loop of main over mustache_files from file i on (counted from 1, the
\* enumerate index being i - 1).
RECURSIVE LoadMustaches(_, _, _)
LoadMustaches(i, exists, st) ==
    IF i > Len(mustache_files)
    THEN st
    ELSE IF exists[i]
         THEN LET f == mustache_files[i]
                  is_enabled == (i - 1 = st.active_filter_index)
              IN  LoadMustaches(i + 1, exists,
                      [st EXCEPT !.filters = add(@, f.name, f.path, is_enabled, 1).filters,
                                 !.loaded_filters = Append(@, f.name),
                                 !.filter_types = Append(@, "2D")])
         ELSE LoadMustaches(i + 1, exists, st)

\* main from its start to the capture loop: it returns when the camera does
\* not open, else it registers the units whose files exist.
main_startup(opened, exists, exists_3d, mesh) ==
    LET st0 == [pc |-> "loop", cam |-> "open", mesh |-> mesh, filters |-> <<>>,
                active_filter_index |-> 0, loaded_filters |-> <<>>,
                filter_types |-> <<>>, show_mesh |-> FALSE, show_boxes |-> TRUE,
                show_mustache |-> TRUE, running |-> TRUE,
                key |-> "start", prev_index |-> 0, it |-> NoIteration]
        st1 == LoadMustaches(1, exists, st0)
    IN  IF ~opened
        THEN [st0 EXCEPT !.pc = "returned", !.cam = "closed"]
        ELSE IF exists_3d
             THEN [st1 EXCEPT !.filters = add(@, "Modelo 3D", model_3d_path, FALSE, 2).filters,
                              !.loaded_filters = Append(@, "Modelo 3D"),
                              !.filter_types = Append(@, "3D")]
             ELSE st1

\* Mutant of SelectKind: the units of the other kind are left as they are.
RECURSIVE SelectKind_keeps_others(_, _, _)
SelectKind_keeps_others(st, i, kind) ==
    IF i > Len(st.loaded_filters)
    THEN st
    ELSE LET name == st.loaded_filters[i]
             filter_item == get_filter_by_name(st.filters, name)
         IN  IF filter_item = 0
             THEN SelectKind_keeps_others(st, i + 1, kind)
             ELSE IF st.filter_types[i] = kind
                  THEN SelectKind_keeps_others(
                          [st EXCEPT !.filters = IF ~@[filter_item].enabled
                                                 THEN toggle(@, name).filters ELSE @,
                                     !.active_filter_index = i - 1],
                          i + 1, kind)
                  ELSE SelectKind_keeps_others(st, i + 1, kind)

\* The loop of the keys '2' and '3' from loaded filter i on (counted from 1):
\* the units of the kind are enabled, the others disabled.
RECURSIVE SelectKind(_, _, _)
SelectKind(st, i, kind) ==
    IF i > Len(st.loaded_filters)
    THEN st
    ELSE LET name == st.loaded_filters[i]
             filter_item == get_filter_by_name(st.filters, name)
         IN  IF filter_item = 0
             THEN SelectKind(st, i + 1, kind)
             ELSE IF st.filter_types[i] = kind
                  THEN SelectKind(
                          [st EXCEPT !.filters = IF ~@[filter_item].enabled
                                                 THEN toggle(@, name).filters ELSE @,
                                     !.active_filter_index = i - 1],
                          i + 1, kind)
                  ELSE SelectKind(
                          [st EXCEPT !.filters = IF @[filter_item].enabled
                                                 THEN toggle(@, name).filters ELSE @],
                          i + 1, kind)

\* The key 'n': the current unit is toggled, the index advances, the unit it
\* reaches is toggled.
NextFilter(st) ==
    IF st.loaded_filters = <<>>
    THEN st
    ELSE LET fs1 == toggle(st.filters, st.loaded_filters[st.active_filter_index + 1]).filters
             index == (st.active_filter_index + 1) % Len(st.loaded_filters)
         IN  [st EXCEPT !.filters = toggle(fs1, st.loaded_filters[index + 1]).filters,
                        !.active_filter_index = index]

\* The handling of the key read by cv2.waitKey, and the test of the loop that
\* follows it.
main_key(st, key) ==
    LET s == [st EXCEPT !.key = key, !.prev_index = st.active_filter_index,
                        !.it = NoIteration]
        t == CASE key = "q" -> [s EXCEPT !.running = FALSE]
               [] key = "m" -> [s EXCEPT !.show_mesh = ~@]
               [] key = "f" -> [s EXCEPT !.show_boxes = ~@]
               [] key = "b" -> [s EXCEPT !.show_mustache = ~@]
               [] key = "n" -> NextFilter(s)
               [] key = "2" -> SelectKind(s, 1, "2D")
               [] key = "3" -> SelectKind(s, 1, "3D")
               [] key = "l" -> [s EXCEPT !.filters = list_filters(@).filters]
               [] OTHER     -> s
    IN  [t EXCEPT !.pc = IF t.running THEN "loop" ELSE "finally"]

\* Mutant of PseudoBox: the default mouth width is used for every face.
PseudoBox_default_width(face) ==
    LET filter_width == Trunc(100 * 13, 10)
        filter_height == Trunc(filter_width * 2, 5)
    IN  <<face.anchor[1] - (filter_width \div 2), face.anchor[2] - (filter_height \div 2),
          filter_width, filter_height>>

\* The pseudo-detection main builds from the first face: its width is
\* int(mouth_width * 1.3), its height int(filter_width * 0.4), and landmark 2
\* is its centre. The floating-point products have the integer part of the
\* exact ones for every mouth_width below 700.
PseudoBox(face) ==
    LET mx == face.anchor[1]
        my == face.anchor[2]
        mouth_width == IF face.n > 291
                       THEN Abs(face.right_corner[1] - face.left_corner[1])
                       ELSE 100
        filter_width == Trunc(mouth_width * 13, 10)
        filter_height == Trunc(filter_width * 2, 5)
    IN  <<mx - (filter_width \div 2), my - (filter_height \div 2),
          filter_width, filter_height>>

\* FilterManager.apply on the units main registered, from position i on: an
\* overlay unit places its image, the 3D unit asks the mesh for landmarks of
\* its own. An error raised by a unit leaves apply at once. The log tells of
\* each unit invoked what it did.
RECURSIVE MainApplyLoop(_, _, _, _, _, _)
MainApplyLoop(fs, i, detections, mesh, answer, log) ==
    IF i > Len(fs)
    THEN [raised |-> FALSE, log |-> log]
    ELSE IF fs[i].enabled /\ Truthy(fs[i].filter_obj)
         THEN IF fs[i].filter_obj = model_3d_path
              THEN LET results == mesh_detect(mesh, answer.faces)
                       r == Model3DApply(Model3DInit(TRUE, mesh), "cv2", <<"frame">>,
                                detections,
                                [k \in 1..Len(detections) |->
                                    [faces |-> results, success |-> answer.success]])
                   IN  MainApplyLoop(fs, i + 1, detections, mesh, answer,
                           Append(log, [name |-> fs[i].name, raised |-> FALSE,
                                        blends |-> <<>>, results |-> results,
                                        poses |-> r.log]))
              ELSE LET r == OverlayApply(OverlayUnit(fs[i].filter_obj), detections)
                       entry == [name |-> fs[i].name, raised |-> r.raised,
                                 blends |-> r.blends, results |-> <<>>, poses |-> <<>>]
                   IN  IF r.raised
                       THEN [raised |-> TRUE, log |-> Append(log, entry)]
                       ELSE MainApplyLoop(fs, i + 1, detections, mesh, answer,
                                          Append(log, entry))
         ELSE MainApplyLoop(fs, i + 1, detections, mesh, answer, log)

\* Mutant of Placement: the list of faces is not tested, and face_pts[0] of
\* an empty list raises IndexError.
Placement_untested(st, face_pts, answer) ==
    IF st.show_mustache /\ face_pts = <<>>
    THEN [box |-> NoBox, raised |-> TRUE, log |-> <<>>]
    ELSE IF /\ st.show_mustache
            /\ get_active_count(st.filters).ret # {0}
            /\ 2 < face_pts[1].n
         THEN LET box == PseudoBox(face_pts[1])
                  a == MainApplyLoop(st.filters, 1, <<box>>, st.mesh, answer, <<>>)
              IN  [box |-> box, raised |-> a.raised, log |-> a.log]
         ELSE [box |-> NoBox, raised |-> FALSE, log |-> <<>>]

\* The placement of an iteration whose landmarks are face_pts: when the
\* filters are shown, a face was found, a unit is enabled and the face has
\* landmark 2, the pseudo-box is built and the registry applies its units.
Placement(st, face_pts, answer) ==
    IF /\ st.show_mustache
       /\ face_pts # <<>>
       /\ get_active_count(st.filters).ret # {0}
       /\ 2 < face_pts[1].n
    THEN LET box == PseudoBox(face_pts[1])
             a == MainApplyLoop(st.filters, 1, <<box>>, st.mesh, answer, <<>>)
         IN  [box |-> box, raised |-> a.raised, log |-> a.log]
    ELSE [box |-> NoBox, raised |-> FALSE, log |-> <<>>]

\* One iteration of the capture loop up to cv2.imshow: a failed read breaks
\* out of the loop; an error raised while the units are applied leaves the
\* loop through its finally clause.
main_frame(st, rd, faces, answer) ==
    LET r == camera_read(st.cam, rd)
        s == [st EXCEPT !.key = "", !.prev_index = st.active_filter_index]
    IN  IF ~r[1] \/ r[2] = None
        THEN [s EXCEPT !.pc = "finally", !.it = [NoIteration EXCEPT !.read = "failed"]]
        ELSE LET use_mesh == /\ st.mesh # None
                             /\ mesh_available(st.mesh)
                             /\ (st.show_mesh \/ st.show_mustache)
                 face_pts == IF use_mesh THEN mesh_detect(st.mesh, faces) ELSE <<>>
                 a == IF use_mesh
                      THEN Placement(st, face_pts, answer)
                      ELSE [box |-> NoBox, raised |-> FALSE, log |-> <<>>]
             IN  [s EXCEPT !.pc = IF a.raised THEN "finally" ELSE "key",
                           !.it = [read |-> "ok", detected |-> TRUE,
                                   rectangles |-> st.show_boxes,
                                   landmarks |-> IF use_mesh THEN "detected" ELSE "skipped",
                                   face_pts |-> face_pts,
                                   mesh_drawn |-> use_mesh /\ st.show_mesh,
                                   box |-> a.box, applied |-> a.log,
                                   raised |-> a.raised, displayed |-> ~a.raised]]

\* Mutant of main_finally: the camera is released only when the loop ended
\* without an error.
main_finally_on_return(st) ==
    [st EXCEPT !.cam = IF st.it.raised THEN @ ELSE camera_release(@),
               !.pc = IF st.it.raised THEN "crashed" ELSE "returned"]

\* The finally clause of main: the camera is released; then main returns, or
\* the error that left the loop leaves main.
main_finally(st) ==
    [st EXCEPT !.cam = camera_release(@),
               !.pc = IF st.it.raised THEN "crashed" ELSE "returned"]

\* ------------------------------------------------------------ history
NoFrame == <<>>

\* OverlayFilter.apply has not been called.
NotApplied == [phase |-> "none", raised |-> FALSE, blends |-> <<>>, detections |-> <<>>]

Op(op, name, filter_obj, enabled, z_order, found, fr, detections) ==
    [op |-> op, name |-> name, filter_obj |-> filter_obj, enabled |-> enabled,
     z_order |-> z_order, found |-> found, frame |-> fr, detections |-> detections]

Without(s, name) == SelectSeq(s, LAMBDA n : n # name)

\* ------------------------------------------------------------ actions
\* In the actions, \E r \in {e} names the result r of the call e.
\* FilterManager.__init__.
FmInit ==
    /\ filters = <<>>
    /\ insertion = <<>>
    /\ lastOp = Op("init", "", None, FALSE, 0, FALSE, NoFrame, <<>>)
    /\ ret = PyNone
    /\ calls = <<>>
    /\ frame = NoFrame

\* No overlay unit is under study.
OvIdle ==
    /\ constructed = FALSE
    /\ assets = <<>>
    /\ asset_index = -1
    /\ _overlay = NoImage
    /\ offset_x = 0
    /\ offset_y = 0
    /\ visited = <<>>
    /\ scale = <<1, 1>>
    /\ config = FilterConfigPostInit(<<1, 1>>)
    /\ sums = [dx |-> 0, dy |-> 0]
    /\ applied = NotApplied

\* No call of _blend_rgba is under study.
BlIdle == bl = [phase |-> "idle"]

\* No call of Model3DFilter.apply is under study.
M3Idle == m3 = [phase |-> "idle"]

\* main() is not under study.
MnIdle == mn = [pc |-> "idle"]

Init == FmInit /\ OvIdle /\ BlIdle /\ M3Idle /\ MnIdle

\* add and remove without the insertion history.
AddStep(name, filter_obj, enabled, z_order) ==
    \E r \in {add(filters, name, filter_obj, enabled, z_order)} :
        /\ filters' = r.filters
        /\ ret' = r.ret
        /\ lastOp' = Op("add", name, filter_obj, enabled, z_order,
                        get_filter_by_name(filters, name) # 0, NoFrame, <<>>)
        /\ calls' = <<>>
        /\ frame' = NoFrame

RemoveStep(name) ==
    \E r \in {remove(filters, name)} :
        /\ filters' = r.filters
        /\ ret' = r.ret
        /\ lastOp' = Op("remove", name, None, FALSE, 0,
                        get_filter_by_name(filters, name) # 0, NoFrame, <<>>)
        /\ calls' = <<>>
        /\ frame' = NoFrame

AddCall ==
    \E name \in Names, filter_obj \in FilterObjs,
       enabled \in BOOLEAN, z_order \in ZOrders :
        /\ AddStep(name, filter_obj, enabled, z_order)
        /\ UNCHANGED <<insertion, ovVars>>

RemoveCall ==
    \E name \in Names :
        /\ RemoveStep(name)
        /\ UNCHANGED <<insertion, ovVars>>

\* add and remove with the insertion history.
AddCallOrder ==
    \E name \in Names, filter_obj \in FilterObjs,
       enabled \in BOOLEAN, z_order \in ZOrders :
        /\ AddStep(name, filter_obj, enabled, z_order)
        /\ insertion' = Append(Without(insertion, name), name)
        /\ UNCHANGED ovVars

RemoveCallOrder ==
    \E name \in Names :
        /\ RemoveStep(name)
        /\ insertion' = Without(insertion, name)
        /\ UNCHANGED ovVars

SetEnabledCall ==
    \E name \in Names, enabled \in BOOLEAN :
        \E r \in {set_enabled(filters, name, enabled)} :
            /\ filters' = r.filters
            /\ ret' = r.ret
            /\ lastOp' = Op("set_enabled", name, None, enabled, 0,
                            get_filter_by_name(filters, name) # 0, NoFrame, <<>>)
            /\ calls' = <<>>
            /\ frame' = NoFrame
            /\ UNCHANGED <<insertion, ovVars>>

ToggleCall ==
    \E name \in Names :
        \E r \in {toggle(filters, name)} :
            /\ filters' = r.filters
            /\ ret' = r.ret
            /\ lastOp' = Op("toggle", name, None, FALSE, 0,
                            get_filter_by_name(filters, name) # 0, NoFrame, <<>>)
            /\ calls' = <<>>
            /\ frame' = NoFrame
            /\ UNCHANGED <<insertion, ovVars>>

MoveCall ==
    \E name \in Names, new_z_order \in ZOrders :
        \E r \in {move(filters, name, new_z_order)} :
            /\ filters' = r.filters
            /\ ret' = r.ret
            /\ lastOp' = Op("move", name, None, FALSE, new_z_order,
                            get_filter_by_name(filters, name) # 0, NoFrame, <<>>)
            /\ calls' = <<>>
            /\ frame' = NoFrame
            /\ UNCHANGED <<insertion, ovVars>>

ApplyCall ==
    \E fr \in InputFrames, detections \in DetectionLists :
        \E r \in {apply(filters, fr, detections)} :
            /\ frame' = r.frame
            /\ calls' = r.calls
            /\ ret' = PyNone
            /\ lastOp' = Op("apply", "", None, FALSE, 0, FALSE, fr, detections)
            /\ UNCHANGED <<filters, insertion, ovVars>>

Next ==
    \/ AddCall
    \/ RemoveCall
    \/ SetEnabledCall
    \/ ToggleCall
    \/ MoveCall
    \/ ApplyCall

ListFiltersCall ==
    \E r \in {list_filters(filters)} :
        /\ filters' = r.filters
        /\ ret' = r.ret
        /\ lastOp' = Op("list_filters", "", None, FALSE, 0, FALSE, NoFrame, <<>>)
        /\ calls' = <<>>
        /\ frame' = NoFrame
        /\ UNCHANGED <<insertion, ovVars>>

GetActiveCountCall ==
    \E r \in {get_active_count(filters)} :
        /\ filters' = r.filters
        /\ ret' = r.ret
        /\ lastOp' = Op("get_active_count", "", None, FALSE, 0, FALSE, NoFrame, <<>>)
        /\ calls' = <<>>
        /\ frame' = NoFrame
        /\ UNCHANGED <<insertion, ovVars>>

\* get_filter_by_name returns the item found, here as the set of it, or None.
GetFilterByNameCall ==
    \E name \in Names :
        \E i \in {get_filter_by_name(filters, name)} :
            /\ ret' = IF i = 0 THEN PyNone ELSE {filters[i]}
            /\ lastOp' = Op("get_filter_by_name", name, None, FALSE, 0, i # 0,
                            NoFrame, <<>>)
            /\ calls' = <<>>
            /\ frame' = NoFrame
            /\ UNCHANGED <<filters, insertion, ovVars>>

\* add of one filter object under any name.
AddCallFlags ==
    \E name \in Names, enabled \in BOOLEAN, z_order \in ZOrders :
        /\ AddStep(name, "f1", enabled, z_order)
        /\ UNCHANGED <<insertion, ovVars>>

NextFlags ==
    \/ AddCallFlags
    \/ RemoveCall
    \/ SetEnabledCall
    \/ ToggleCall
    \/ MoveCall
    \/ ApplyCall
    \/ ListFiltersCall
    \/ GetActiveCountCall
    \/ GetFilterByNameCall

\* The registry, the methods that only read it included.
SpecFlags == Init /\ [][NextFlags]_vars

\* An OverlayFilter is constructed with some scale from one of the given
\* asset_path lists on some disk, and a FilterConfig with the same scale.
OvConstruct(pathLists) ==
    \E paths \in pathLists, sc \in Scales, disk \in [Paths -> FileKinds],
       cv2 \in {"cv2", None} :
        LET o == OverlayFilterInit(paths, sc, disk, cv2)
        IN  /\ constructed = ~o.raised
            /\ assets = IF o.raised THEN <<>> ELSE o.assets
            /\ asset_index = IF o.raised THEN -1 ELSE o.asset_index
            /\ _overlay = IF o.raised THEN NoImage ELSE o._overlay
            /\ offset_x = o.offset_x
            /\ offset_y = o.offset_y
            /\ visited = IF o.raised THEN <<>> ELSE <<o.asset_index>>
            /\ scale = o.scale
            /\ config = FilterConfigPostInit(sc)
            /\ sums = [dx |-> 0, dy |-> 0]
            /\ applied = NotApplied

OvInit == OvConstruct(SeqsUpTo(Paths, MaxAssets))

\* The registry as src/main.py builds it: the overlay unit enabled at
\* z_order 1, then another unit disabled at z_order 2.
FmRegistered ==
    /\ filters = add(add(<<>>, "A", "f1", TRUE, 1).filters, "B", "f2", FALSE, 2).filters
    /\ insertion = <<"A", "B">>
    /\ lastOp = Op("add", "B", "f2", FALSE, 2, FALSE, NoFrame, <<>>)
    /\ ret = PyNone
    /\ calls = <<>>
    /\ frame = NoFrame

InitOverlay == FmRegistered /\ OvInit /\ BlIdle /\ M3Idle /\ MnIdle

\* The attributes of the unit.
Self ==
    [assets |-> assets, asset_index |-> asset_index, _overlay |-> _overlay,
     offset_x |-> offset_x, offset_y |-> offset_y, scale |-> scale]

NextAssetCall ==
    /\ constructed
    /\ \E r \in {next_asset_on(Self)} :
           /\ assets' = r.assets
           /\ asset_index' = r.asset_index
           /\ _overlay' = r._overlay
           /\ offset_x' = r.offset_x
           /\ offset_y' = r.offset_y
           /\ scale' = r.scale
           /\ visited' = IF Len(visited) <= MaxVisited
                         THEN Append(visited, r.asset_index)
                         ELSE visited
    /\ applied' = NotApplied
    /\ UNCHANGED <<constructed, config, sums, mn, bl, m3, fmVars>>

AddOffsetXCall ==
    \E dx \in OffsetSteps :
        /\ constructed
        /\ add_offset_x(offset_x, dx) \in -MaxOffset..MaxOffset
        /\ offset_x' = add_offset_x(offset_x, dx)
        /\ sums' = [sums EXCEPT !.dx = @ + dx]
        /\ applied' = NotApplied
        /\ UNCHANGED <<constructed, assets, asset_index, _overlay, offset_y, visited,
                       scale, config, mn, bl, m3, fmVars>>

AddOffsetYCall ==
    \E dy \in OffsetSteps :
        /\ constructed
        /\ add_offset_y(offset_y, dy) \in -MaxOffset..MaxOffset
        /\ offset_y' = add_offset_y(offset_y, dy)
        /\ sums' = [sums EXCEPT !.dy = @ + dy]
        /\ applied' = NotApplied
        /\ UNCHANGED <<constructed, assets, asset_index, _overlay, offset_x, visited,
                       scale, config, mn, bl, m3, fmVars>>

ResetOffsetCall ==
    /\ constructed
    /\ offset_x' = reset_offset.offset_x
    /\ offset_y' = reset_offset.offset_y
    /\ sums' = [dx |-> 0, dy |-> 0]
    /\ applied' = NotApplied
    /\ UNCHANGED <<constructed, assets, asset_index, _overlay, visited,
                   scale, config, mn, bl, m3, fmVars>>

\* OverlayFilter.apply on some detections.
OverlayApplyCall ==
    \E detections \in OverlayDetections :
        /\ constructed
        /\ \E r \in {OverlayApply(Self, detections)} :
               applied' = [phase |-> "done", raised |-> r.raised, blends |-> r.blends,
                           detections |-> detections]
        /\ UNCHANGED <<constructed, assets, asset_index, _overlay, offset_x, offset_y,
                       visited, scale, config, sums, mn, bl, m3, fmVars>>

\* A unit constructed from one path, as at src/main.py:114-121.
InitPlace ==
    FmRegistered /\ OvConstruct({<<p>> : p \in Paths}) /\ BlIdle /\ M3Idle /\ MnIdle

NextPlace ==
    \/ NextAssetCall
    \/ AddOffsetXCall
    \/ AddOffsetYCall
    \/ ResetOffsetCall
    \/ OverlayApplyCall

\* One overlay unit of one asset path: its offsets and its placements.
SpecPlace == InitPlace /\ [][NextPlace]_vars

\* _blend_rgba is about to be called on a frame of one colour with an asset
\* of three or four channels at some origin.
BlInit ==
    \E h \in 1..MaxFrameDim, w \in 1..MaxFrameDim, bg \in BgPixels,
       rh \in 1..MaxAssetDim, rw \in 1..MaxAssetDim,
       first \in 1..Len(AssetPixels), channels \in {3, 4},
       ox \in -MaxOrigin..MaxOrigin, oy \in -MaxOrigin..MaxOrigin :
        bl = [phase |-> "call",
              frame |-> [r \in 1..h |-> [c \in 1..w |-> bg]],
              rgba |-> AssetOf(rh, rw, first, channels),
              ox |-> ox, oy |-> oy]

InitBlend == FmInit /\ OvIdle /\ BlInit /\ M3Idle /\ MnIdle

BlendCall ==
    /\ bl.phase = "call"
    /\ \E r \in {_blend_rgba(bl.frame, bl.rgba, bl.ox, bl.oy)} :
           bl' = [phase |-> "done", frame |-> bl.frame, rgba |-> bl.rgba,
                  ox |-> bl.ox, oy |-> bl.oy, raised |-> r.raised, out |-> r.frame]
    /\ UNCHANGED <<fmVars, constructed, assets, asset_index, _overlay, offset_x,
                   offset_y, visited, scale, config, sums, applied, m3, mn>>

NextBlend == BlendCall

\* One call of _blend_rgba.
SpecBlend == InitBlend /\ [][NextBlend]_vars

\* A Model3DFilter is constructed and its apply is about to be called.
M3Init ==
    \E exists \in BOOLEAN, detector \in {"mesh", None}, cv2 \in {"cv2", None},
       fr \in InputFrames, n \in 0..MaxFaces :
        m3 = [phase |-> "call", self |-> Model3DInit(exists, detector), cv2 |-> cv2,
              frame |-> fr, detections |-> [i \in 1..n |-> <<1, 1, 2, 2>>]]

Init3D == FmInit /\ OvIdle /\ BlIdle /\ M3Init /\ MnIdle

\* One call of Model3DFilter.apply, the surroundings answering each detection.
Model3DApplyCall ==
    /\ m3.phase = "call"
    /\ \E answers \in [1..Len(m3.detections) -> Answers] :
         \E r \in {Model3DApply(m3.self, m3.cv2, m3.frame, m3.detections, answers)} :
           m3' = [phase |-> "done", self |-> m3.self, cv2 |-> m3.cv2,
                  frame |-> m3.frame, detections |-> m3.detections,
                  answers |-> answers, out |-> r.frame, log |-> r.log]
    /\ UNCHANGED <<fmVars, constructed, assets, asset_index, _overlay, offset_x,
                   offset_y, visited, scale, config, sums, applied, bl, mn>>

Next3D == Model3DApplyCall

\* One call of Model3DFilter.apply.
Spec3D == Init3D /\ [][Next3D]_vars

\* One unit of either kind.
InitUnits == InitPlace \/ Init3D

NextUnits ==
    \/ NextAssetCall
    \/ AddOffsetXCall
    \/ AddOffsetYCall
    \/ ResetOffsetCall
    \/ OverlayApplyCall
    \/ Model3DApplyCall

SpecUnits == InitUnits /\ [][NextUnits]_vars

\* main starts: the camera opens or not, some of the asset files exist, and
\* the mesh detector is absent, unavailable or available.
MnInit ==
    \E opened \in BOOLEAN, exists \in [1..Len(mustache_files) -> BOOLEAN],
       exists_3d \in BOOLEAN, mesh \in Meshes :
        mn = main_startup(opened, exists, exists_3d, mesh)

InitMain == FmInit /\ OvIdle /\ BlIdle /\ M3Idle /\ MnInit

\* cam.read() fails and the loop breaks.
MainReadFails ==
    /\ mn.pc = "loop"
    /\ \E rd \in ReadAnswers :
           /\ ~rd[1] \/ rd[2] = None
           /\ mn' = main_frame(mn, rd, <<>>, [faces |-> <<>>, success |-> TRUE])
    /\ UNCHANGED <<fmVars, constructed, assets, asset_index, _overlay, offset_x,
                   offset_y, visited, scale, config, sums, applied, bl, m3>>

\* A frame is read and processed up to its display.
MainFrame ==
    /\ mn.pc = "loop"
    /\ \E faces \in MainFaces, answer \in MainAnswers :
           mn' = main_frame(mn, <<TRUE, "frame">>, faces, answer)
    /\ UNCHANGED <<fmVars, constructed, assets, asset_index, _overlay, offset_x,
                   offset_y, visited, scale, config, sums, applied, bl, m3>>

\* The key pressed after the display is handled.
MainKey ==
    /\ mn.pc = "key"
    /\ \E key \in Keys : mn' = main_key(mn, key)
    /\ UNCHANGED <<fmVars, constructed, assets, asset_index, _overlay, offset_x,
                   offset_y, visited, scale, config, sums, applied, bl, m3>>

\* The finally clause runs.
MainFinally ==
    /\ mn.pc = "finally"
    /\ mn' = main_finally(mn)
    /\ UNCHANGED <<fmVars, constructed, assets, asset_index, _overlay, offset_x,
                   offset_y, visited, scale, config, sums, applied, bl, m3>>

NextMain ==
    \/ MainReadFails
    \/ MainFrame
    \/ MainKey
    \/ MainFinally

\* main(): its start-up and its capture loop.
SpecMain == InitMain /\ [][NextMain]_vars

\* main(), and one call of Model3DFilter.apply on its own.
InitProvider == InitMain \/ Init3D

NextProvider ==
    \/ NextMain
    \/ Model3DApplyCall

SpecProvider == InitProvider /\ [][NextProvider]_vars

NextOverlay ==
    \/ NextAssetCall
    \/ AddOffsetXCall
    \/ AddOffsetYCall
    \/ ResetOffsetCall

\* One overlay unit, its methods callable at any time.
SpecOverlay == InitOverlay /\ [][NextOverlay]_vars

\* The registry, every method callable at any time.
Spec == Init /\ [][Next]_vars

NextOrder ==
    \/ AddCallOrder
    \/ RemoveCallOrder
    \/ SetEnabledCall
    \/ ToggleCall
    \/ MoveCall
    \/ ApplyCall

\* The registry with the history of the insertions.
SpecOrder == Init /\ [][NextOrder]_vars

\* ------------------------------------------------- properties: helpers
\* The positions of the units called name.
UnitsNamed(fs, name) == {i \in 1..Len(fs) : fs[i].name = name}

HasUnit(fs, name) == UnitsNamed(fs, name) # {}

\* The units not called name, in list order.
Others(fs, name) == SelectSeq(fs, LAMBDA it : it.name # name)

IsSorted(fs) == \A i, j \in 1..Len(fs) : i < j => fs[i].z_order <= fs[j].z_order

\* The unit called name (there is one).
Unit(fs, name) == fs[CHOOSE i \in UnitsNamed(fs, name) : TRUE]

\* The names of the units the last apply invoked, in the order of the calls.
Invoked == [k \in 1..Len(calls) |-> calls[k].name]

\* The place of name in the order of the insertions.
InsPos(name) == CHOOSE k \in 1..Len(insertion) : insertion[k] = name

\* ------------------------------------------------------------- claims
\* C1: add called with a name that is already registered leaves exactly one
\* unit under that name, carrying the second call's filter object, enabled
\* flag and z_order; every other unit is still present, its fields unchanged.
C1_AddReplaces ==
    [][(lastOp'.op = "add" /\ HasUnit(filters, lastOp'.name)) =>
        /\ Cardinality(UnitsNamed(filters', lastOp'.name)) = 1
        /\ \A i \in UnitsNamed(filters', lastOp'.name) :
              /\ filters'[i].filter_obj = lastOp'.filter_obj
              /\ filters'[i].enabled = lastOp'.enabled
              /\ filters'[i].z_order = lastOp'.z_order
        /\ Len(filters') = Len(filters)
        /\ \A i \in 1..Len(filters) :
              filters[i].name # lastOp'.name =>
                  \E j \in 1..Len(filters') : filters'[j] = filters[i]
    ]_vars

\* An add has replaced a unit by one with another object, flag and z_order
\* while two other units were registered.
C1_Witness ==
    /\ lastOp.op = "add"
    /\ lastOp.found
    /\ lastOp.filter_obj = "f2"
    /\ ~lastOp.enabled
    /\ Len(filters) = 3

\* C2: in every state reachable from an empty FilterManager by add, remove,
\* move, toggle, set_enabled and apply calls, no two units of the list have
\* the same name.
C2_UniqueNames ==
    \A i, j \in 1..Len(filters) : i # j => filters[i].name # filters[j].name

\* Three units are registered and the last call was a move of a registered
\* unit.
C2_Witness ==
    /\ Len(filters) = 3
    /\ lastOp.op = "move"
    /\ lastOp.found

\* C3: apply invokes the enabled units in ascending z_order, and units of
\* equal z_order in the order they were added; units A, B, C added in that
\* order with z_order 2, 1, 1, all enabled, are invoked in the order B, C, A.
C3_ApplyOrder ==
    lastOp.op = "apply" =>
        /\ \A a, b \in 1..Len(calls) :
              a < b =>
                  \/ Unit(filters, calls[a].name).z_order < Unit(filters, calls[b].name).z_order
                  \/ /\ Unit(filters, calls[a].name).z_order = Unit(filters, calls[b].name).z_order
                     /\ InsPos(calls[a].name) < InsPos(calls[b].name)
        /\ ( /\ insertion = <<"A", "B", "C">>
             /\ \A i \in 1..Len(filters) :
                   /\ filters[i].enabled
                   /\ filters[i].z_order = IF filters[i].name = "A" THEN 2 ELSE 1 )
           => Invoked = <<"B", "C", "A">>

\* C4: after any sequence of add, move and remove calls the list is sorted by
\* non-decreasing z_order, and two units of equal z_order stand in the order
\* in which add inserted them, also when a move created the tie.
C4_SortedByInsertion ==
    \A i, j \in 1..Len(filters) :
        i < j =>
            /\ filters[i].z_order <= filters[j].z_order
            /\ filters[i].z_order = filters[j].z_order =>
                   InsPos(filters[i].name) < InsPos(filters[j].name)

\* C5: apply invokes the render capability of every enabled unit and of no
\* disabled unit, each once per call; the frame one unit returns is the frame
\* passed to the next; the frame the last invoked unit returns is apply's
\* result, which is the input frame when no unit is enabled.
C5_ApplyInvokesEnabled ==
    lastOp.op = "apply" =>
        /\ \A i \in 1..Len(filters) :
              Cardinality({k \in 1..Len(calls) : calls[k].name = filters[i].name})
                  = IF filters[i].enabled THEN 1 ELSE 0
        /\ \A k \in 1..Len(calls) :
              /\ HasUnit(filters, calls[k].name)
              /\ calls[k].filter_obj = Unit(filters, calls[k].name).filter_obj
              /\ calls[k].detections = lastOp.detections
              /\ calls[k].frame = IF k = 1 THEN lastOp.frame ELSE calls[k - 1].returned
        /\ frame = IF calls = <<>> THEN lastOp.frame ELSE calls[Len(calls)].returned

\* An apply on three units, of which the first in the list and one more are
\* enabled and one is disabled.
C5_Witness ==
    /\ lastOp.op = "apply"
    /\ Len(filters) = 3
    /\ filters[1].enabled
    /\ Len(calls) = 2
    /\ frame # lastOp.frame

\* C6: toggle(name) on a name not in the registry returns None and changes
\* nothing; on a registered name it negates that unit's enabled flag once and
\* returns the flag's new value.
C6_Toggle ==
    [][lastOp'.op = "toggle" =>
        IF HasUnit(filters, lastOp'.name)
        THEN /\ Len(filters') = Len(filters)
             /\ \A i \in 1..Len(filters) :
                   IF filters[i].name = lastOp'.name
                   THEN /\ filters'[i] = [filters[i] EXCEPT !.enabled = ~filters[i].enabled]
                        /\ ret' = PyBool(filters'[i].enabled)
                   ELSE filters'[i] = filters[i]
        ELSE /\ ret' = PyNone
             /\ filters' = filters
    ]_vars

\* A toggle has switched a registered unit off, another unit being enabled.
C6_Witness ==
    /\ lastOp.op = "toggle"
    /\ lastOp.found
    /\ ret = PyBool(FALSE)
    /\ \E i \in 1..Len(filters) : filters[i].enabled

\* C7: set_enabled(name, enabled) returns False and leaves the registry
\* unchanged when name is absent; when name is present it sets that unit's
\* flag to the given value and returns True, whatever the flag was before.
C7_SetEnabled ==
    [][lastOp'.op = "set_enabled" =>
        IF HasUnit(filters, lastOp'.name)
        THEN /\ ret' = PyBool(TRUE)
             /\ Len(filters') = Len(filters)
             /\ \A i \in 1..Len(filters) :
                   IF filters[i].name = lastOp'.name
                   THEN filters'[i] = [filters[i] EXCEPT !.enabled = lastOp'.enabled]
                   ELSE filters'[i] = filters[i]
        ELSE /\ ret' = PyBool(FALSE)
             /\ filters' = filters
    ]_vars

\* set_enabled(name, True) has returned True on a registered unit, another
\* unit being registered.
C7_Witness ==
    /\ lastOp.op = "set_enabled"
    /\ lastOp.found
    /\ lastOp.enabled
    /\ ret = PyBool(TRUE)
    /\ Len(filters) >= 2

\* C8: move(name, new_z_order) returns False and leaves the registry unchanged
\* when name is absent; when name is present it sets that unit's z_order,
\* sorts the list ascending by z_order, returns True and leaves the relative
\* order of all other units unchanged.
C8_Move ==
    [][lastOp'.op = "move" =>
        IF HasUnit(filters, lastOp'.name)
        THEN /\ ret' = PyBool(TRUE)
             /\ Cardinality(UnitsNamed(filters', lastOp'.name)) = 1
             /\ Unit(filters', lastOp'.name) =
                    [Unit(filters, lastOp'.name) EXCEPT !.z_order = lastOp'.z_order]
             /\ IsSorted(filters')
             /\ Others(filters', lastOp'.name) = Others(filters, lastOp'.name)
        ELSE /\ ret' = PyBool(FALSE)
             /\ filters' = filters
    ]_vars

\* A move has put the first of three units behind the two others.
C8_Witness ==
    /\ lastOp.op = "move"
    /\ lastOp.found
    /\ Len(filters) = 3
    /\ filters[3].name = lastOp.name
    /\ filters[2].z_order < filters[3].z_order
    /\ filters[1].z_order = filters[2].z_order

\* C9: remove(name) returns True and deletes the unit of that name when it is
\* registered, returns False and changes nothing when it is not; in both cases
\* every other unit stays, its fields and relative order unchanged; and no
\* call other than remove, and add on a registered name, deletes a unit.
C9_Remove ==
    [][ /\ lastOp'.op = "remove" =>
            /\ ret' = PyBool(HasUnit(filters, lastOp'.name))
            /\ ~HasUnit(filters', lastOp'.name)
            /\ Others(filters', lastOp'.name) = Others(filters, lastOp'.name)
            /\ ~HasUnit(filters, lastOp'.name) => filters' = filters
        /\ lastOp'.op = "add" =>
            \A i \in 1..Len(filters) :
                filters[i].name # lastOp'.name =>
                    \E j \in 1..Len(filters') : filters'[j] = filters[i]
        /\ lastOp'.op \notin {"remove", "add"} =>
            /\ Len(filters') = Len(filters)
            /\ \A i \in 1..Len(filters) :
                  \E j \in 1..Len(filters') :
                      /\ filters'[j].name = filters[i].name
                      /\ filters'[j].filter_obj = filters[i].filter_obj
    ]_vars

\* A remove has deleted the middle one of three units.
C9_Witness ==
    /\ lastOp.op = "remove"
    /\ lastOp.found
    /\ ret = PyBool(TRUE)
    /\ Len(filters) = 2
    /\ filters[1].z_order < filters[2].z_order

\* The recorded history of the cursor runs 0, 1, ..., n-1, 0, ... over n assets.
VisitsCycle(n) == \A k \in 1..Len(visited) : visited[k] = (k - 1) % n

\* C10 as stated: for an OverlayFilter holding n loaded assets, after any
\* number of next_asset calls the active index is in [0, n) and the active
\* overlay is the asset at that index; with n = 3 successive calls visit the
\* indices 0, 1, 2, 0.
C10_IndexInRange ==
    constructed =>
        /\ asset_index \in 0..(Len(assets) - 1)
        /\ _overlay = assets[asset_index + 1]
        /\ Len(assets) = 3 => VisitsCycle(3)

\* C10 as amended: the same for n >= 1; an OverlayFilter holding no loaded
\* asset has the index -1 and no active overlay, before and after next_asset.
C10_IndexInRangeOrNone ==
    constructed =>
        /\ Len(assets) >= 1 =>
              /\ asset_index \in 0..(Len(assets) - 1)
              /\ _overlay = assets[asset_index + 1]
        /\ Len(assets) = 0 =>
              /\ asset_index = -1
              /\ _overlay = NoImage
        /\ Len(assets) = 3 => VisitsCycle(3)

\* Over three assets of different paths the third next_asset call has wrapped
\* to the first asset.
C10_Witness ==
    /\ constructed
    /\ Len(assets) = 3
    /\ assets[1] # assets[2] /\ assets[2] # assets[3] /\ assets[1] # assets[3]
    /\ Len(visited) = 4
    /\ visited = <<0, 1, 2, 0>>
    /\ asset_index = 0
    /\ _overlay = assets[1]

\* ---------------------------------------------------------------- C11
\* C11: next_asset changes only the asset cursor and the active overlay of the
\* unit: the registry (the entry's enabled flag and z_order, the order of the
\* list), the unit's assets, its scale and its accumulated offsets are the same
\* before and after the call.
C11_NextAssetFrame ==
    [][NextAssetCall => /\ filters' = filters
                        /\ assets' = assets
                        /\ scale' = scale
                        /\ offset_x' = offset_x
                        /\ offset_y' = offset_y]_vars

\* next_asset has moved the cursor of a registered unit whose offsets are not 0.
C11_Witness ==
    /\ HasUnit(filters, "A")
    /\ Len(visited) >= 2
    /\ visited[2] # visited[1]
    /\ offset_x # 0
    /\ offset_y # 0

\* ---------------------------------------------------------------- C16
\* The _blend_rgba calls of the last OverlayFilter.apply.
Blends == {applied.blends[i] : i \in 1..Len(applied.blends)}

\* C16 as stated: for every box OverlayFilter.apply blends, the target width
\* is trunc(w * scale) and the target height is
\* trunc(w * scale * native_h / native_w).
C16_TargetSizeExact ==
    \A b \in Blends :
        /\ b.rw = Trunc(b.box[3] * scale[1], scale[2])
        /\ b.rh = Trunc(b.box[3] * scale[1] * Shape(b.overlay)[1],
                        scale[2] * Shape(b.overlay)[2])

\* C16, amended: the target width is trunc(w * scale) and the target height is
\* trunc(target_w * native_h / native_w), from the width already truncated.
C16_TargetSizeFromWidth ==
    \A b \in Blends :
        /\ b.rw = Trunc(b.box[3] * scale[1], scale[2])
        /\ b.rh = Trunc(b.rw * Shape(b.overlay)[1], Shape(b.overlay)[2])

\* One apply at scale 1.2 blended a box of width 50 at width 60, and a box
\* whose height differs from the one of the untruncated width.
C16_Witness ==
    /\ applied.phase = "done"
    /\ scale = <<6, 5>>
    /\ \E b \in Blends : b.box[3] = 50 /\ b.rw = 60
    /\ \E b \in Blends :
           b.rh # Trunc(b.box[3] * scale[1] * Shape(b.overlay)[1],
                        scale[2] * Shape(b.overlay)[2])

\* ---------------------------------------------------------------- C17
\* The origin of a blend by the formula of the claim, from the sums of the
\* moves made since construction or the last reset_offset.
Centered(b) ==
    [ox |-> b.box[1] - ((b.rw - b.box[3]) \div 2) + sums.dx,
     oy |-> b.box[2] - (b.rh \div 2) + sums.dy]

\* C17 as stated: the origin at which apply blends is
\* (x - (target_w - w) // 2 + offset_x, y - target_h // 2 + offset_y), the
\* offsets being the sums of the dx and dy passed since construction or the
\* last reset_offset.
C17_OriginCentered ==
    \A b \in Blends : b.ox = Centered(b).ox /\ b.oy = Centered(b).oy

\* C17, amended: each coordinate of that origin is held at 0 from below.
C17_OriginCenteredHeld ==
    \A b \in Blends :
        /\ b.ox = Max(0, Centered(b).ox)
        /\ b.oy = Max(0, Centered(b).oy)

\* After moves in both directions, apply blended one box at a coordinate held
\* at 0 and another at its centered origin.
C17_Witness ==
    /\ applied.phase = "done"
    /\ sums.dx # 0
    /\ sums.dy # 0
    /\ \E b \in Blends : Centered(b).oy < 0 /\ b.oy = 0
    /\ \E b \in Blends : Centered(b).ox > 0 /\ Centered(b).oy > 0

\* ---------------------------------------------------------------- C18
ScaleInRange(sc) == 10 * sc[1] >= sc[2] /\ sc[1] <= 2 * sc[2]

\* C18: a placement configuration or an overlay unit is constructed only with
\* a scale in 0.1..2.0: FilterConfig raises exactly for the scales outside,
\* and no OverlayFilter exists with a scale outside.
C18_ScaleValidated ==
    /\ config.raised <=> ~ScaleInRange(config.scale)
    /\ constructed => ScaleInRange(scale)

\* ---------------------------------------------------------------- C12
\* The frame pixels, counted from 0, inside the footprint of the asset at the
\* origin: [ox, ox + asset_w) x [oy, oy + asset_h) cut to the frame.
Footprint ==
    {<<r, c>> \in (0..(Len(bl.frame) - 1)) \X (0..(Len(bl.frame[1]) - 1)) :
        /\ bl.oy <= r /\ r < bl.oy + Len(bl.rgba.pixels)
        /\ bl.ox <= c /\ c < bl.ox + Len(bl.rgba.pixels[1])}

\* The frame pixels the call changed.
Written ==
    {<<r, c>> \in (0..(Len(bl.frame) - 1)) \X (0..(Len(bl.frame[1]) - 1)) :
        bl.out[r + 1][c + 1] # bl.frame[r + 1][c + 1]}

\* The asset pixel that lies over the frame pixel <<r, c>> of the footprint.
Over(rc) == bl.rgba.pixels[rc[1] - bl.oy + 1][rc[2] - bl.ox + 1]

\* C12: for every frame, asset and origin, negative origins included,
\* _blend_rgba changes only frame pixels inside the footprint of the asset cut
\* to the frame; every other pixel is as it was.
C12_WritesInsideFootprint ==
    bl.phase = "done" => Written \subseteq Footprint

\* ---------------------------------------------------------------- C13
\* C13: for every origin at which the footprint of the asset does not meet the
\* frame, _blend_rgba returns normally and leaves every pixel as it was.
C13_OutsideIsNoOp ==
    (bl.phase = "done" /\ Footprint = {}) => (~bl.raised /\ bl.out = bl.frame)

\* ---------------------------------------------------------------- C14
\* C14: when _blend_rgba blends an asset of four channels, every pixel of the
\* clipped region under an asset pixel of alpha 0 keeps its background value
\* in all three channels, and every pixel under an asset pixel of alpha 255
\* has exactly the asset's value.
C14_AlphaExtremes ==
    (bl.phase = "done" /\ ~bl.raised /\ bl.rgba.channels = 4) =>
        \A rc \in Footprint :
            /\ Over(rc).a = 0 => bl.out[rc[1] + 1][rc[2] + 1] = bl.frame[rc[1] + 1][rc[2] + 1]
            /\ Over(rc).a = 255 => bl.out[rc[1] + 1][rc[2] + 1] = Over(rc).bgr

\* An asset of four channels was blended over a region holding a pixel of
\* alpha 0 and a pixel of alpha 255, cut by the border of the frame.
C14_Witness ==
    /\ bl.phase = "done"
    /\ ~bl.raised
    /\ bl.rgba.channels = 4
    /\ \E rc \in Footprint : Over(rc).a = 0
    /\ \E rc \in Footprint : Over(rc).a = 255 /\ Over(rc).bgr # bl.frame[rc[1] + 1][rc[2] + 1]
    /\ Cardinality(Footprint) < Len(bl.rgba.pixels) * Len(bl.rgba.pixels[1])

\* ---------------------------------------------------------------- C15
\* C15: when _blend_rgba is given an asset of three channels, every pixel of
\* the clipped region has the value of the asset pixel over it, whatever the
\* background was.
C15_NoAlphaOverwrites ==
    (bl.phase = "done" /\ ~bl.raised /\ bl.rgba.channels = 3) =>
        \A rc \in Footprint : bl.out[rc[1] + 1][rc[2] + 1] = Over(rc).bgr

\* An asset of three channels was written over a region cut by the border of
\* the frame, over a pixel whose asset pixel would blend to another value.
C15_Witness ==
    /\ bl.phase = "done"
    /\ ~bl.raised
    /\ bl.rgba.channels = 3
    /\ \E rc \in Footprint : Over(rc).a = 128
    /\ Cardinality(Footprint) < Len(bl.rgba.pixels) * Len(bl.rgba.pixels[1])

\* ---------------------------------------------------------------- C19
\* The call went through its detections: OpenCV, the model and the landmark
\* detector are there.
M3Active ==
    /\ m3.phase = "done"
    /\ m3.cv2 # None
    /\ m3.self.model_loaded
    /\ m3.self.face_mesh_detector # None

\* The six indices the pose needs, and those of them a landmark list of n
\* entries holds.
RequiredIndices == {33, 263, 1, 61, 291, 199}

ValidEntries(n) == {idx \in RequiredIndices : idx < n}

\* The detections whose landmark set has fewer than six valid entries.
Insufficient ==
    {i \in 1..Len(m3.detections) :
        /\ m3.answers[i].faces # <<>>
        /\ Cardinality(ValidEntries(m3.answers[i].faces[1])) < 6}

\* The detections the call rendered, in the order of the list.
RenderedOf(log) == SelectSeq([i \in 1..Len(log) |-> i], LAMBDA i : log[i].rendered)

\* C19: for a detection whose landmark set has fewer valid entries than the
\* six required indices, solvePnP is not called and nothing is rendered: the
\* returned frame holds the renderings of the other detections only.
C19_InsufficientLandmarks ==
    M3Active =>
        /\ \A i \in Insufficient : ~m3.log[i].solved /\ ~m3.log[i].rendered
        /\ Len(m3.out) = Len(m3.frame) + Len(RenderedOf(m3.log))
        /\ \A k \in 1..Len(m3.frame) : m3.out[k] = m3.frame[k]

\* A detection with four of the six landmarks was passed over and the next
\* detection was rendered.
C19_Witness ==
    /\ M3Active
    /\ Len(m3.detections) = 2
    /\ m3.answers[1].faces = <<200>>
    /\ m3.answers[1].success
    /\ 1 \in Insufficient
    /\ m3.log[2].rendered
    /\ Len(m3.out) = Len(m3.frame) + 1

\* ---------------------------------------------------------------- C20
\* The detections with all six landmarks for which solvePnP reported failure.
SolveFailed ==
    {i \in 1..Len(m3.detections) :
        /\ m3.answers[i].faces # <<>>
        /\ Cardinality(ValidEntries(m3.answers[i].faces[1])) = 6
        /\ ~m3.answers[i].success}

\* The detections with all six landmarks for which solvePnP succeeded.
SolveSucceeded ==
    {i \in 1..Len(m3.detections) :
        /\ m3.answers[i].faces # <<>>
        /\ Cardinality(ValidEntries(m3.answers[i].faces[1])) = 6
        /\ m3.answers[i].success}

\* C20: a detection for which solvePnP reports failure is not rendered, the
\* call goes on with every remaining detection (each one solved is rendered)
\* and returns a frame.
C20_SolveFailureSkipped ==
    M3Active =>
        /\ Len(m3.log) = Len(m3.detections)
        /\ \A i \in SolveFailed : m3.log[i].solved /\ ~m3.log[i].rendered
        /\ \A i \in SolveSucceeded : m3.log[i].rendered
        /\ Len(m3.out) >= Len(m3.frame)

\* solvePnP failed for the first detection and the second was rendered.
C20_Witness ==
    /\ M3Active
    /\ Len(m3.detections) = 2
    /\ 1 \in SolveFailed
    /\ 2 \in SolveSucceeded
    /\ m3.log[2].rendered
    /\ m3.out = Append(m3.frame, <<"axes", MP_IDXS>>)

\* ---------------------------------------------------------------- C22
\* C22: a unit whose asset could not be loaded renders nothing: apply of an
\* OverlayFilter without a loaded image makes no blend and raises no error,
\* whatever next_asset and offset calls came before, and apply of a
\* Model3DFilter whose model file is missing returns the frame as it came.
C22_NoAssetNoOp ==
    /\ (constructed /\ assets = <<>> /\ applied.phase = "done") =>
           (~applied.raised /\ applied.blends = <<>>)
    /\ (m3.phase = "done" /\ ~m3.self.model_loaded) =>
           (m3.out = m3.frame /\ m3.log = <<>>)

\* An OverlayFilter without a loaded image, after next_asset calls and moves,
\* was applied to a list of two boxes.
C22_Witness ==
    /\ constructed
    /\ assets = <<>>
    /\ Len(visited) >= 2
    /\ offset_x # 0
    /\ offset_y # 0
    /\ applied.phase = "done"
    /\ Len(applied.detections) = 2

\* ---------------------------------------------------------------- C27
\* C27: the enabled flag of a unit is true or false; a step changes the flag
\* of a unit only if it is toggle or set_enabled on that name or an add that
\* replaces it (so move, remove of another name, apply, list_filters,
\* get_active_count and get_filter_by_name change no flag); and two toggle
\* calls in a row on a name leave the registry as it was.
C27_EnabledFlag ==
    /\ [](\A n \in Names : toggle(toggle(filters, n).filters, n).filters = filters)
    /\ [][/\ \A i \in 1..Len(filters') : filters'[i].enabled \in BOOLEAN
          /\ \A i \in 1..Len(filters), j \in 1..Len(filters') :
                 (filters[i].name = filters'[j].name
                    /\ filters[i].enabled # filters'[j].enabled) =>
                     /\ lastOp'.op \in {"toggle", "set_enabled", "add"}
                     /\ lastOp'.name = filters[i].name]_vars

\* A move, a call of get_active_count and a removal of another name were
\* made on a registry holding an enabled and a disabled unit.
C27_Witness ==
    /\ lastOp.op \in {"move", "get_active_count", "remove"}
    /\ lastOp.op = "remove" => lastOp.found
    /\ \E i, j \in 1..Len(filters) : filters[i].enabled /\ ~filters[j].enabled

\* ---------------------------------------------------------------- C30
\* C30: every origin OverlayFilter.apply passes to _blend_rgba has x >= 0 and
\* y >= 0, for every box and every accumulated offset.
C30_OriginNotNegative ==
    \A b \in Blends : b.ox >= 0 /\ b.oy >= 0

\* A blend was made whose centered origin is negative in x and in y.
C30_Witness ==
    /\ applied.phase = "done"
    /\ \E b \in Blends : Centered(b).ox < 0 /\ Centered(b).oy < 0 /\ b.ox = 0 /\ b.oy = 0

\* ------------------------------------------------------------ C28
\* The loop of main is between two iterations, the last key handled being k
\* ("start" before the first iteration).
AfterKey(k) == mn.pc = "loop" /\ mn.key = k

\* The names of the enabled units of main's registry.
EnabledNames == {mn.filters[i].name : i \in {j \in 1..Len(mn.filters) : mn.filters[j].enabled}}

\* C28: after start-up and after every 'n' key press, with at least one filter
\* loaded, active_filter_index is an index of loaded_filters and the enabled
\* units are exactly the one unit loaded_filters[active_filter_index].
C28_OneActive ==
    ((AfterKey("start") \/ AfterKey("n")) /\ mn.loaded_filters # <<>>) =>
        /\ mn.active_filter_index \in 0..(Len(mn.loaded_filters) - 1)
        /\ EnabledNames = {mn.loaded_filters[mn.active_filter_index + 1]}

\* ------------------------------------------------------------ C29
\* The positions in loaded_filters of the filters of a kind.
LoadedOfKind(kind) ==
    {i \in 1..Len(mn.loaded_filters) : mn.filter_types[i] = kind}

\* The loaded filters that are enabled are exactly those of the kind, and
\* active_filter_index is on one of them, or where it was when there is none.
OnlyKind(kind) ==
    /\ \A i \in 1..Len(mn.loaded_filters) :
           (mn.loaded_filters[i] \in EnabledNames) <=> (mn.filter_types[i] = kind)
    /\ IF LoadedOfKind(kind) # {}
       THEN mn.active_filter_index + 1 \in LoadedOfKind(kind)
       ELSE mn.active_filter_index = mn.prev_index

\* C29: right after the key '2' every loaded 2D filter is enabled and every
\* loaded 3D filter disabled, right after the key '3' the reverse; the index
\* is then on a filter of the selected kind, or unchanged when none is loaded.
C29_SelectKind ==
    /\ AfterKey("2") => OnlyKind("2D")
    /\ AfterKey("3") => OnlyKind("3D")

\* The key '2' was pressed with the index on the 3D model: the three
\* mustaches are enabled, the model is disabled, the index moved to the last
\* mustache.
C29_Witness ==
    /\ AfterKey("2")
    /\ Len(mn.loaded_filters) = 4
    /\ mn.prev_index = 3
    /\ mn.active_filter_index = 2
    /\ EnabledNames = {"Bigote Negro", "Bigote Cafe", "Bigote Rojo"}

\* ------------------------------------------------------------ C25
\* trunc(1.3 * sqrt(q)) for an integer q >= 0 not above bound * bound: the
\* largest w with (10 * w)^2 <= 169 * q.
TruncRoot13(q, bound) ==
    CHOOSE w \in 0..(2 * bound) :
        /\ 100 * w * w <= 169 * q
        /\ 100 * (w + 1) * (w + 1) > 169 * q

\* The distance in pixels between the mouth corners of a face, scaled by 1.3
\* and truncated.
WidthFromDistance(face) ==
    LET dx == Abs(face.right_corner[1] - face.left_corner[1])
        dy == Abs(face.right_corner[2] - face.left_corner[2])
    IN  TruncRoot13(dx * dx + dy * dy, dx + dy)

\* The same of the distance in x alone.
WidthFromHorizontalDistance(face) ==
    Trunc(13 * Abs(face.right_corner[1] - face.left_corner[1]), 10)

\* The box has landmark 2 of the face at its centre, to the pixel.
CenteredOnAnchor(box, face) ==
    /\ box[3] - 2 * (face.anchor[1] - box[1]) \in {0, 1}
    /\ box[4] - 2 * (face.anchor[2] - box[2]) \in {0, 1}

\* The iteration read a frame and the mesh reported a face.
FaceSeen == mn.pc # "idle" /\ mn.it.read = "ok" /\ mn.it.face_pts # <<>>

\* C25 as stated: the width of the pseudo-box is trunc(1.3 * d), d the pixel
\* distance between landmarks 61 and 291 of the first face, when the face has
\* at least 292 landmarks, and trunc(1.3 * 100) otherwise; the box is centred
\* on landmark 2; nothing is placed when the face has no landmark 2.
C25_PseudoBoxWidth ==
    FaceSeen =>
        LET face == mn.it.face_pts[1]
            box == mn.it.box
        IN  /\ face.n <= 2 => (box = NoBox /\ mn.it.applied = <<>>)
            /\ box # NoBox =>
                   /\ box[3] = IF face.n >= 292 THEN WidthFromDistance(face)
                                                ELSE Trunc(13 * 100, 10)
                   /\ CenteredOnAnchor(box, face)

\* C25, amended: d is the distance in x between landmarks 61 and 291,
\* |x291 - x61|, whatever their y.
C25_PseudoBoxHorizontalWidth ==
    FaceSeen =>
        LET face == mn.it.face_pts[1]
            box == mn.it.box
        IN  /\ face.n <= 2 => (box = NoBox /\ mn.it.applied = <<>>)
            /\ box # NoBox =>
                   /\ box[3] = IF face.n >= 292 THEN WidthFromHorizontalDistance(face)
                                                ELSE Trunc(13 * 100, 10)
                   /\ CenteredOnAnchor(box, face)

\* A placement on a face whose mouth corners are 40 pixels apart in x and 30
\* in y: the box is 52 wide.
C25_Witness ==
    /\ FaceSeen
    /\ mn.it.box # NoBox
    /\ mn.it.face_pts[1].n >= 292
    /\ mn.it.face_pts[1].left_corner[2] # mn.it.face_pts[1].right_corner[2]
    /\ mn.it.box[3] = 52
    /\ mn.it.applied # <<>>

\* ------------------------------------------------------------ C21
\* The iteration read a frame and had no landmarks: there is no mesh
\* detector, it is not available, or it was asked and found no face.
NoLandmarksForFrame ==
    /\ mn.pc # "idle"
    /\ mn.it.read = "ok"
    /\ \/ mn.mesh = None
       \/ ~mesh_available(mn.mesh)
       \/ mn.it.landmarks = "detected" /\ mn.it.face_pts = <<>>

\* The 3D unit was applied on its own without a detector, or its detector
\* found no face for any detection.
NoLandmarksFor3D ==
    /\ m3.phase = "done"
    /\ m3.cv2 # None
    /\ m3.self.model_loaded
    /\ \/ m3.self.face_mesh_detector = None
       \/ \A k \in 1..Len(m3.answers) : m3.answers[k].faces = <<>>

\* C21: a frame for which the landmark provider is absent, unavailable or
\* finds no face gets no placement and no pose: in main no pseudo-box is built,
\* no unit is applied, no error is raised, the frame is displayed and every key
\* but 'q' leads to the next iteration; in Model3DFilter.apply nothing is
\* solved or rendered and the frame is returned as it came.
C21_NoLandmarksNoPlacement ==
    /\ NoLandmarksForFrame =>
           /\ mn.it.box = NoBox
           /\ mn.it.applied = <<>>
           /\ ~mn.it.raised
           /\ mn.it.displayed
           /\ mn.pc = "key"
           /\ \A key \in Keys \ {"q"} : main_key(mn, key).pc = "loop"
    /\ NoLandmarksFor3D =>
           /\ m3.out = m3.frame
           /\ \A k \in 1..Len(m3.log) : ~m3.log[k].solved /\ ~m3.log[k].rendered

\* The available detector found no face while the filters are shown and a
\* unit is enabled.
C21_Witness ==
    /\ NoLandmarksForFrame
    /\ mn.mesh = "available"
    /\ mn.show_mustache
    /\ get_active_count(mn.filters).ret # {0}
    /\ mn.it.landmarks = "detected"
    /\ mn.it.displayed

\* ------------------------------------------------------------ C23
\* main has left its capture loop and its finally clause.
MainEnded == mn.pc \in {"returned", "crashed"} /\ mn.cam # "closed"

\* C23: an iteration whose read fails runs no detection, no placement, no
\* unit and no display, and leaves the loop; and whenever main has left the
\* loop, by a failed read, by the key 'q' or by an error, the camera has been
\* released.
C23_ReadFailureEndsLoop ==
    /\ (mn.pc # "idle" /\ mn.it.read = "failed") =>
           /\ ~mn.it.detected
           /\ mn.it.landmarks = "skipped"
           /\ mn.it.box = NoBox
           /\ mn.it.applied = <<>>
           /\ ~mn.it.displayed
           /\ mn.pc \in {"finally", "returned"}
    /\ MainEnded => mn.cam = "released"

\* main returned after a failed read, some keys having moved the index before.
C23_Witness ==
    /\ MainEnded
    /\ mn.pc = "returned"
    /\ mn.it.read = "failed"
    /\ mn.prev_index # 0
    /\ mn.cam = "released"

\* ------------------------------------------------------------ C24
\* C24: an iteration that read a frame completes, whatever the landmarks: no
\* error is raised, the frame is displayed and the key is read; and main
\* leaves the loop only after a failed read or the key 'q'.
C24_NoAbnormalEnd ==
    /\ (mn.pc # "idle" /\ mn.it.read = "ok") =>
           /\ ~mn.it.raised
           /\ mn.it.displayed
           /\ mn.pc = "key"
    /\ (mn.pc \in {"finally", "returned", "crashed"} /\ mn.cam # "closed") =>
           (mn.it.read = "failed" \/ mn.key = "q")

====
